---- MODULE Spec2Model ----
(***************************************************************************)
(* The transaction-monitoring loop of the repository, in its two forms:    *)
(*   "fiat"   Transaction-Monitoring/Transaction-Monitoring-System.py      *)
(*   "crypto" Transaction-Analysis-Tool/Crypto-AML-Analysis-Tool.py        *)
(* One process runs run_monitoring_loop over one SQLite connection; an     *)
(* upstream process inserts transactions; SIGINT runs signal_handler.      *)
(*                                                                         *)
(* The connection's view of the tables (active, archive) is kept apart     *)
(* from the committed tables (comActive, comArchive): Python's sqlite3     *)
(* opens a transaction before the first INSERT/UPDATE/DELETE and keeps it  *)
(* open until commit() or rollback().  Times are seconds; the text order   *)
(* of the stored ISO timestamps is the order of the instants.              *)
(*                                                                         *)
(* The tables are taken to have the columns the two programs use (the      *)
(* processed column, the archive tables); a statement that fails for any   *)
(* reason is a fault.  validate_transaction_data only writes warnings and  *)
(* changes nothing, so it is part of the fetch step.                       *)
(***************************************************************************)
EXTENDS Integers, Sequences, FiniteSets, TLC

(* ------------------------------ bounds --------------------------------- *)
MaxTx == 3
MaxSleeps == 2
MaxFaults == 2

(* ------------------------ configuration (config.py) -------------------- *)
ROUND_AMOUNT_MULTIPLE == 1000
TRANSACTION_FREQUENCY_LIMIT == 10
MONITORING_INTERVAL == 300
ARCHIVE_AGE_DAYS == 30
RAPID_SUCCESSION_SECONDS == 60
SECONDS_PER_DAY == 86400
HIGH_RISK_COUNTRIES ==
  {"North Korea", "Iran", "Afghanistan", "Syria", "Sudan", "Yemen",
   "Venezuela", "Iraq", "Myanmar", "Libya"}

Variants == {"fiat", "crypto"}

(* ------------------- the transactions upstream may insert --------------- *)
(* Row t of the pool; the columns of transactions / crypto_transactions.   *)
(* account_id is also from_address, payee_id is to_address, amount is      *)
(* value_usd.                                                              *)
TxIds == 1..MaxTx
account_id(t) == 1
payee_id(t) == 1 + (t \div 3)
amount(t) == IF t = 1 THEN 20000 ELSE IF t % 2 = 1 THEN 1000 * t ELSE 250 + 500 * t
country(t) == IF t % 3 = 1 THEN "Iran" ELSE "US"
transaction_date(t) == IF t = 1 THEN 0 ELSE 100 + 30 * (t - 2)

(* The clock when the loop starts: the first cutoff is transaction 2's date. *)
Now0 == ARCHIVE_AGE_DAYS * SECONDS_PER_DAY + 100
MaxNow == Now0 + MaxSleeps * MONITORING_INTERVAL

(* ------------------------------ helpers -------------------------------- *)
Min(S) == CHOOSE x \in S : \A y \in S : x <= y
Max(S) == CHOOSE x \in S : \A y \in S : y <= x

RECURSIVE SortedSeq(_)
(* The rows of a result set in table (rowid) order. *)
SortedSeq(S) == IF S = {} THEN << >> ELSE <<Min(S)>> \o SortedSeq(S \ {Min(S)})

Rows(S, type) ==
  [i \in 1..Cardinality(S) |-> [transaction_id |-> SortedSeq(S)[i], alert_type |-> type]]

CountLines(lg, line) == Cardinality({i \in 1..Len(lg) : lg[i] = line})

(* --------------- the rules of generate_alerts (fiat), over a table ------ *)
high_risk_countries(tbl) == {t \in tbl : country(t) \in HIGH_RISK_COUNTRIES}

(* LAG(transaction_date) OVER (PARTITION BY account_id ORDER BY transaction_date) *)
Predecessors(tbl, t) ==
  {u \in tbl : /\ account_id(u) = account_id(t)
               /\ \/ transaction_date(u) < transaction_date(t)
                  \/ transaction_date(u) = transaction_date(t) /\ u < t}

rapid_succession(tbl) ==
  {t \in tbl :
     /\ Predecessors(tbl, t) # {}
     /\ transaction_date(t)
          - Max({transaction_date(u) : u \in Predecessors(tbl, t)})
        < RAPID_SUCCESSION_SECONDS}

round_amount(tbl) == {t \in tbl : amount(t) % ROUND_AMOUNT_MULTIPLE = 0}

high_frequency(tbl) ==
  {t \in tbl :
     Cardinality({u \in tbl : /\ account_id(u) = account_id(t)
                              /\ transaction_date(u) \div SECONDS_PER_DAY
                                   = transaction_date(t) \div SECONDS_PER_DAY})
       > TRANSACTION_FREQUENCY_LIMIT}

new_payees(tbl) ==
  {t \in tbl :
     Cardinality({u \in tbl : account_id(u) = account_id(t) /\ payee_id(u) = payee_id(t)}) = 1}

(* UNION ALL of the five result sets.  The query reads FROM transactions:  *)
(* tbl is the whole table as the connection sees it, not the batch.        *)
generate_alerts(tbl) ==
  Rows(high_risk_countries(tbl), "High-Risk Country")
    \o Rows(rapid_succession(tbl), "Rapid Succession")
    \o Rows(round_amount(tbl), "Round Amount")
    \o Rows(high_frequency(tbl), "High Frequency")
    \o Rows(new_payees(tbl), "New Payee")

(* ------------- detect_frequent_transactions (crypto), as it runs -------- *)
(* Each group is re-indexed by transaction_date, so the frame diff()       *)
(* returns has no transaction_date column: reading .transaction_date       *)
(* raises for every group (diff() on the text columns raises before that   *)
(* when a group has two rows).  Only a batch with no group returns.        *)
detect_frequent_transactions(b) ==
  [raised |-> b # {}, flagged |-> {}]

(* ------------------------------ state ---------------------------------- *)
VARIABLES
  variant,     \* which of the two programs runs
  now,         \* datetime.datetime.now()
  ingested,    \* ids upstream has inserted so far (ids are never reused)
  active,      \* transactions table as the connection sees it: id -> processed
  archive,     \* transactions_archive as the connection sees it: set of rows
  comActive,   \* transactions table, committed
  comArchive,  \* transactions_archive, committed
  inTxn,       \* the connection holds an open write transaction
  alerts,      \* alerts table (every insert is committed or rolled back at once)
  pc,          \* position of the loop
  batch,       \* `transactions`: ids fetched by the pass
  alertRows,   \* `alerts`: the frame generate_alerts returned
  idx,         \* position of the for loop over alertRows
  cutoff,      \* archive_date
  log,         \* log lines of the current loop iteration, in order
  faults,      \* storage calls that have failed so far
  faultAt,     \* positions at which a storage call failed in this iteration
  connOpen,    \* the connection is open
  sigint,      \* SIGINT was delivered
  frame,       \* position the handler interrupted
  txns,        \* a DataFrame handed to a detector of the crypto tool
  out          \* what the detector or scorer last applied to txns gave

vars == <<variant, now, ingested, active, archive, comActive, comArchive, inTxn,
          alerts, pc, batch, alertRows, idx, cutoff, log, faults, faultAt,
          connOpen, sigint, frame, txns, out>>

ruleVars == <<txns, out>>
dbVars == <<active, archive, comActive, comArchive, inTxn>>
passVars == <<batch, alertRows, idx>>
envVars == <<variant, now, ingested, connOpen, sigint, frame>>

EmptyTable == [t \in {} |-> FALSE]

Init ==
  /\ variant \in Variants
  /\ now = Now0
  /\ ingested = {}
  /\ active = EmptyTable /\ comActive = EmptyTable
  /\ archive = {} /\ comArchive = {}
  /\ inTxn = FALSE
  /\ alerts = << >>
  /\ pc = "Fetch"
  /\ batch = {} /\ alertRows = << >> /\ idx = 1
  /\ cutoff = 0
  /\ log = << >>
  /\ faults = 0 /\ faultAt = {}
  /\ connOpen = TRUE
  /\ sigint = FALSE
  /\ frame = "none"
  /\ txns = [columns |-> {}, rows |-> << >>]
  /\ out = [fn |-> "none"]

(* --------------------------- storage helpers --------------------------- *)
(* SELECT * FROM transactions WHERE processed = 0 *)
Unprocessed_all(tbl) == DOMAIN tbl

Unprocessed(tbl) == {t \in DOMAIN tbl : ~tbl[t]}

(* WHERE transaction_date < ? *)
OlderOrEqual(t, c) == transaction_date(t) <= c

Older(t, c) == transaction_date(t) < c

(* SELECT * copies the row as it is, its processed flag included. *)
ArchiveRow(tbl, t) == [transaction_id |-> t, processed |-> tbl[t]]

(* UPDATE transactions SET processed = 1 WHERE transaction_id = ?, for each id *)
MarkProcessed(tbl, ids) == [t \in DOMAIN tbl |-> IF t \in ids THEN TRUE ELSE tbl[t]]

(* The for loop over the alert rows: the next row, or on to marking. *)
BreakAfterFirst(i, rows) == "Mark"

AfterAlertPc(i, rows) == IF i < Len(rows) THEN "Alert" ELSE "Mark"

(* log_alert catches its own failure: the loop goes on as after a success. *)
AlertFailureAborts(i, rows) == "ArchInsert"

AlertFailurePc(i, rows) == AfterAlertPc(i, rows)

(* A storage call fails (connection lost, database locked, disk error).    *)
(* On a connection that was closed every call fails: "Cannot operate on a  *)
(* closed database."                                                       *)
Fault(p) == /\ IF connOpen THEN faults < MaxFaults /\ faults' = faults + 1
                           ELSE faults' = faults
            /\ faultAt' = faultAt \cup {p}

NoFault == UNCHANGED <<faults, faultAt>>

(* conn.commit(), or leaving `with conn:` without an exception *)
Commit(a, r) == /\ active' = a /\ archive' = r
                /\ comActive' = a /\ comArchive' = r
                /\ inTxn' = FALSE

(* conn.rollback(): leaving `with conn:` with an exception, or conn.close() *)
Rollback == /\ active' = comActive /\ archive' = comArchive
            /\ UNCHANGED <<comActive, comArchive>>
            /\ inTxn' = FALSE

(* ------------------------------ upstream ------------------------------- *)
(* Another connection inserts transaction t, unprocessed.  It cannot write *)
(* while this connection holds its write transaction open.                 *)
Ingest(t) ==
  /\ pc # "Stopped"
  /\ t \notin ingested
  /\ ~inTxn
  /\ ingested' = ingested \cup {t}
  /\ active' = [u \in DOMAIN active \cup {t} |-> IF u = t THEN FALSE ELSE active[u]]
  /\ comActive' = [u \in DOMAIN comActive \cup {t} |-> IF u = t THEN FALSE ELSE comActive[u]]
  /\ UNCHANGED <<variant, now, archive, comArchive, inTxn, alerts, pc, batch,
                 alertRows, idx, cutoff, log, faults, faultAt, connOpen, sigint, frame>>
  /\ UNCHANGED ruleVars

(* --------------- monitor_transactions / analyze_transactions ----------- *)
(* pd.read_sql of the unprocessed rows; an empty batch returns at once. *)
FetchOk ==
  /\ pc = "Fetch"
  /\ connOpen
  /\ batch' = Unprocessed(active)
  /\ IF batch' = {}
       THEN /\ log' = Append(log, "no_new")
            /\ pc' = "ArchInsert"
       ELSE /\ log' = log
            /\ pc' = IF variant = "fiat" THEN "Generate" ELSE "Detect"
  /\ NoFault
  /\ UNCHANGED <<alertRows, idx, cutoff, alerts>>
  /\ UNCHANGED dbVars /\ UNCHANGED envVars
  /\ UNCHANGED ruleVars

(* pd.read_sql raises.  pandas answers a failed statement with             *)
(* con.rollback() before it raises DatabaseError, which ends a transaction *)
(* an earlier archiver left open; when the rollback fails as well, the     *)
(* connection stays as it was.                                             *)
FetchFail ==
  /\ pc = "Fetch"
  /\ Fault("Fetch")
  /\ log' = Append(log, "pass_error")
  /\ pc' = "ArchInsert"
  /\ UNCHANGED <<batch, alertRows, idx, cutoff, alerts>>
  /\ (Rollback \/ UNCHANGED dbVars)
  /\ UNCHANGED envVars
  /\ UNCHANGED ruleVars

(* fiat: alerts = generate_alerts(transactions) *)
GenerateOk ==
  /\ pc = "Generate"
  /\ connOpen
  /\ alertRows' = generate_alerts(DOMAIN active)
  /\ idx' = 1
  /\ pc' = IF Len(alertRows') = 0 THEN "Mark" ELSE "Alert"
  /\ NoFault
  /\ UNCHANGED <<batch, cutoff, alerts, log>>
  /\ UNCHANGED dbVars /\ UNCHANGED envVars
  /\ UNCHANGED ruleVars

(* pd.read_sql(query, conn) raises: rollback as in the fetch. *)
GenerateFail ==
  /\ pc = "Generate"
  /\ Fault("Generate")
  /\ log' = Append(log, "pass_error")
  /\ pc' = "ArchInsert"
  /\ UNCHANGED <<batch, alertRows, idx, cutoff, alerts>>
  /\ (Rollback \/ UNCHANGED dbVars)
  /\ UNCHANGED envVars
  /\ UNCHANGED ruleVars

(* crypto: the detectors run over the batch; detect_frequent_transactions  *)
(* raises, analyze_transactions logs the error and returns.                *)
Detect ==
  /\ pc = "Detect"
  /\ detect_frequent_transactions(batch).raised
  /\ log' = Append(log, "pass_error")
  /\ pc' = "ArchInsert"
  /\ NoFault
  /\ UNCHANGED <<batch, alertRows, idx, cutoff, alerts>>
  /\ UNCHANGED dbVars /\ UNCHANGED envVars
  /\ UNCHANGED ruleVars

(* log_alert of row idx: INSERT INTO alerts inside `with conn:`, which     *)
(* commits when the block is left.  The log line is the next statement.    *)
LogAlertOk ==
  /\ pc = "Alert"
  /\ connOpen
  /\ alerts' = Append(alerts, [transaction_id |-> alertRows[idx].transaction_id,
                               alert_type |-> alertRows[idx].alert_type,
                               alert_date |-> now])
  /\ Commit(active, archive)
  /\ pc' = "AlertLog"
  /\ NoFault
  /\ UNCHANGED <<batch, alertRows, idx, cutoff, log>>
  /\ UNCHANGED envVars
  /\ UNCHANGED ruleVars

(* logging.info("Alert logged ..."), and on to the next row of the loop *)
LogAlertInfo ==
  /\ pc = "AlertLog"
  /\ log' = Append(log, "alert_logged")
  /\ idx' = idx + 1
  /\ pc' = AfterAlertPc(idx, alertRows)
  /\ NoFault
  /\ UNCHANGED <<batch, alertRows, cutoff, alerts>>
  /\ UNCHANGED dbVars /\ UNCHANGED envVars
  /\ UNCHANGED ruleVars

LogAlertFail ==
  /\ pc = "Alert"
  /\ Fault("Alert")
  /\ Rollback
  /\ log' = Append(log, "alert_failed")
  /\ idx' = idx + 1
  /\ pc' = AlertFailurePc(idx, alertRows)
  /\ UNCHANGED <<batch, alertRows, cutoff, alerts>>
  /\ UNCHANGED envVars
  /\ UNCHANGED ruleVars

(* mark_transactions_processed(transactions['transaction_id'].tolist()):   *)
(* the UPDATEs inside `with conn:`, committed when the block is left.      *)
MarkOk ==
  /\ pc = "Mark"
  /\ connOpen
  /\ Commit(MarkProcessed(active, batch), archive)
  /\ pc' = "MarkLog"
  /\ NoFault
  /\ UNCHANGED <<batch, alertRows, idx, cutoff, alerts, log>>
  /\ UNCHANGED envVars
  /\ UNCHANGED ruleVars

(* logging.info("Marked transactions as processed ...") *)
MarkInfo ==
  /\ pc = "MarkLog"
  /\ log' = Append(log, "marked")
  /\ pc' = "ArchInsert"
  /\ NoFault
  /\ UNCHANGED <<batch, alertRows, idx, cutoff, alerts>>
  /\ UNCHANGED dbVars /\ UNCHANGED envVars
  /\ UNCHANGED ruleVars

MarkFail ==
  /\ pc = "Mark"
  /\ Fault("Mark")
  /\ Rollback
  /\ log' = Append(log, "pass_error")
  /\ pc' = "ArchInsert"
  /\ UNCHANGED <<batch, alertRows, idx, cutoff, alerts>>
  /\ UNCHANGED envVars
  /\ UNCHANGED ruleVars

(* ----------------------- archive_old_transactions ---------------------- *)
(* INSERT INTO transactions_archive SELECT * FROM transactions WHERE ... *)
ArchInsertOk ==
  /\ pc = "ArchInsert"
  /\ connOpen
  /\ cutoff' = now - ARCHIVE_AGE_DAYS * SECONDS_PER_DAY
  /\ archive' = archive \cup
                  {ArchiveRow(active, t) : t \in {u \in DOMAIN active : Older(u, cutoff')}}
  /\ inTxn' = TRUE
  /\ pc' = "ArchDelete"
  /\ NoFault
  /\ UNCHANGED <<active, comActive, comArchive, batch, alertRows, idx, alerts, log>>
  /\ UNCHANGED envVars
  /\ UNCHANGED ruleVars

(* DELETE FROM transactions WHERE transaction_date < ? *)
ArchDeleteOk ==
  /\ pc = "ArchDelete"
  /\ connOpen
  /\ active' = [t \in {u \in DOMAIN active : ~Older(u, cutoff)} |-> active[t]]
  /\ pc' = "ArchCommit"
  /\ NoFault
  /\ UNCHANGED <<archive, comActive, comArchive, inTxn, batch, alertRows, idx,
                 cutoff, alerts, log>>
  /\ UNCHANGED envVars
  /\ UNCHANGED ruleVars

(* conn.commit() (crypto: leaving `with conn:`) *)
ArchCommitOk ==
  /\ pc = "ArchCommit"
  /\ connOpen
  /\ Commit(active, archive)
  /\ pc' = "ArchLog"
  /\ NoFault
  /\ UNCHANGED <<batch, alertRows, idx, cutoff, alerts, log>>
  /\ UNCHANGED envVars
  /\ UNCHANGED ruleVars

(* logging.info("Archived transactions older than ...") *)
ArchInfo ==
  /\ pc = "ArchLog"
  /\ log' = Append(log, "archived")
  /\ pc' = "Sleep"
  /\ NoFault
  /\ UNCHANGED <<batch, alertRows, idx, cutoff, alerts>>
  /\ UNCHANGED dbVars /\ UNCHANGED envVars
  /\ UNCHANGED ruleVars

(* A statement of the archiver fails and the transaction is rolled back:   *)
(* crypto runs the statements inside `with conn:`, which rolls back; in    *)
(* fiat SQLite itself may roll the transaction back on the error.          *)
ArchFailRollback ==
  /\ pc \in {"ArchInsert", "ArchDelete", "ArchCommit"}
  /\ Fault(pc)
  /\ cutoff' = now - ARCHIVE_AGE_DAYS * SECONDS_PER_DAY
  /\ Rollback
  /\ log' = Append(log, "archive_error")
  /\ pc' = "Sleep"
  /\ UNCHANGED <<batch, alertRows, idx, alerts>>
  /\ UNCHANGED envVars
  /\ UNCHANGED ruleVars

(* fiat: only the failed statement is undone.  The handler logs and        *)
(* returns without rollback: the transaction the implicit BEGIN opened     *)
(* stays open, with what the earlier statements wrote pending in it, and   *)
(* keeps the write lock until a later commit or rollback.                  *)
ArchFailPending ==
  /\ pc \in {"ArchInsert", "ArchDelete", "ArchCommit"}
  /\ variant = "fiat"
  /\ connOpen
  /\ Fault(pc)
  /\ cutoff' = now - ARCHIVE_AGE_DAYS * SECONDS_PER_DAY
  /\ inTxn' = TRUE
  /\ UNCHANGED <<active, archive, comActive, comArchive>>
  /\ log' = Append(log, "archive_error")
  /\ pc' = "Sleep"
  /\ UNCHANGED <<batch, alertRows, idx, alerts>>
  /\ UNCHANGED envVars
  /\ UNCHANGED ruleVars

(* --------------------------- run_monitoring_loop ----------------------- *)
(* fiat: time.sleep(interval), then the next pass. *)
Sleep ==
  /\ pc = "Sleep"
  /\ variant = "fiat"
  /\ now < MaxNow
  /\ now' = now + MONITORING_INTERVAL
  /\ pc' = "Fetch"
  /\ batch' = {} /\ alertRows' = << >> /\ idx' = 1
  /\ log' = << >>
  /\ faultAt' = {}
  /\ UNCHANGED <<variant, ingested, connOpen, sigint, frame, cutoff, alerts, faults>>
  /\ UNCHANGED dbVars
  /\ UNCHANGED ruleVars

(* crypto: logging.info("Monitoring completed at ...") at the end of the   *)
(* pass, a statement of its own before the sleep.                          *)
MonitoringCompleted ==
  /\ pc = "Sleep"
  /\ variant = "crypto"
  /\ CountLines(log, "completed") = 0
  /\ log' = Append(log, "completed")
  /\ NoFault
  /\ UNCHANGED <<pc, batch, alertRows, idx, cutoff, alerts>>
  /\ UNCHANGED dbVars /\ UNCHANGED envVars
  /\ UNCHANGED ruleVars

(* crypto: the module never imports time, so time.sleep raises NameError,  *)
(* which `except KeyboardInterrupt` does not catch: the process dies.      *)
SleepNameError ==
  /\ pc = "Sleep"
  /\ variant = "crypto"
  /\ CountLines(log, "completed") = 1
  /\ pc' = "Stopped"
  /\ connOpen' = FALSE
  /\ Rollback
  /\ UNCHANGED <<variant, now, ingested, sigint, frame, batch, alertRows, idx,
                 cutoff, alerts, log, faults, faultAt>>
  /\ UNCHANGED ruleVars

(* ------------------------------ signal_handler ------------------------- *)
(* SIGINT handled outside `with conn:`, at any statement: between two      *)
(* calls, in the archiver, in the sleep, or after a commit and before the  *)
(* log line that follows it.  conn.close() drops what is uncommitted, and  *)
(* sys.exit(0) unwinds whatever was running.                               *)
signal_handler ==
  /\ pc # "Stopped"
  /\ sigint' = TRUE
  /\ frame' = pc
  /\ connOpen' = FALSE
  /\ Rollback
  /\ pc' = "Stopped"
  /\ UNCHANGED <<variant, now, ingested, batch, alertRows, idx, cutoff, alerts,
                 log, faults, faultAt>>
  /\ UNCHANGED ruleVars

(* SIGINT handled while the program is inside `with conn:` (log_alert,     *)
(* mark_transactions_processed, the crypto archiver): conn.close(), then   *)
(* sys.exit(0) raises SystemExit, and leaving the block rolls back on the  *)
(* closed connection, which raises sqlite3.ProgrammingError in its place.  *)
(* `except Exception` catches that as a failure of the call: the process   *)
(* goes on, with its connection closed.                                    *)
signal_handler_in_with_conn ==
  /\ \/ pc \in {"Alert", "Mark"}
     \/ variant = "crypto" /\ pc \in {"ArchInsert", "ArchDelete", "ArchCommit"}
  /\ sigint' = TRUE
  /\ frame' = pc
  /\ connOpen' = FALSE
  /\ Rollback
  /\ faultAt' = faultAt \cup {pc}
  /\ log' = Append(log, IF pc = "Alert" THEN "alert_failed"
                        ELSE IF pc = "Mark" THEN "pass_error" ELSE "archive_error")
  /\ idx' = IF pc = "Alert" THEN idx + 1 ELSE idx
  /\ cutoff' = IF pc \in {"Alert", "Mark"} THEN cutoff
                ELSE now - ARCHIVE_AGE_DAYS * SECONDS_PER_DAY
  /\ pc' = IF pc = "Alert" THEN AlertFailurePc(idx, alertRows)
           ELSE IF pc = "Mark" THEN "ArchInsert" ELSE "Sleep"
  /\ UNCHANGED <<variant, now, ingested, batch, alertRows, alerts, faults>>
  /\ UNCHANGED ruleVars

Next ==
  \/ \E t \in TxIds : Ingest(t)
  \/ FetchOk \/ FetchFail
  \/ GenerateOk \/ GenerateFail
  \/ Detect
  \/ LogAlertOk \/ LogAlertInfo \/ LogAlertFail
  \/ MarkOk \/ MarkInfo \/ MarkFail
  \/ ArchInsertOk \/ ArchDeleteOk \/ ArchCommitOk \/ ArchInfo
  \/ ArchFailRollback \/ ArchFailPending
  \/ Sleep \/ MonitoringCompleted \/ SleepNameError
  \/ signal_handler
  \/ signal_handler_in_with_conn

Spec == Init /\ [][Next]_vars

(* ======================= properties of the loop ======================== *)
(* The alert records the current pass has inserted, in order. *)
RECURSIVE PassAlerts(_, _)
PassAlerts(al, date) ==
  IF al = << >> THEN << >>
  ELSE LET rest == PassAlerts(Tail(al), date)
       IN IF Head(al).alert_date = date
            THEN <<[transaction_id |-> Head(al).transaction_id,
                    alert_type |-> Head(al).alert_type]>> \o rest
            ELSE rest

InArchive(tbl, t) == \E r \in tbl : r.transaction_id = t

(* C1: a transaction that was already reviewed when a pass started is      *)
(* excluded from the pass: no alert row of the pass is about it, and no    *)
(* two passes record an alert for the same transaction from the same cause.*)
C1_ReviewedExcluded ==
  /\ pc = "Alert" =>
       \A i \in 1..Len(alertRows) :
          alertRows[i].transaction_id \in DOMAIN active
            => ~active[alertRows[i].transaction_id]
  /\ \A i, j \in 1..Len(alerts) :
       (/\ alerts[i].transaction_id = alerts[j].transaction_id
        /\ alerts[i].alert_type = alerts[j].alert_type)
         => alerts[i].alert_date = alerts[j].alert_date

(* C2: when the detection pass over a non-empty batch has returned, and no *)
(* storage call failed in it, mark_reviewed has run exactly once and every *)
(* transaction of the batch is reviewed.                                   *)
C2_BatchMarked ==
  (pc = "ArchInsert" /\ batch # {} /\ faultAt = {}) =>
     /\ CountLines(log, "marked") = 1
     /\ \A t \in batch : t \in DOMAIN active /\ active[t]

(* The program is at position p, or a signal stopped it there. *)
FrameAt(p) == pc = p \/ (pc = "Stopped" /\ frame = p)

(* The alert rows of the pass that log_alert has been through: the rows    *)
(* before the loop's position, and the row at it once its insert is        *)
(* committed.                                                              *)
Attempted == IF FrameAt("AlertLog") THEN idx ELSE idx - 1

(* A transaction of the batch carries the reviewed flag, in the active     *)
(* store or in the archive: mark_transactions_processed has committed.     *)
BatchMarked ==
  \E t \in batch :
     \/ t \in DOMAIN active /\ active[t]
     \/ \E r \in archive : r.transaction_id = t /\ r.processed

(* C3: the steps of a pass are ordered.  No alert of the pass is recorded  *)
(* before the rules have produced their rows; every row the loop has been  *)
(* through is either recorded or failed with a logged failure; and marking *)
(* starts, and the batch is marked, only when the loop has been through    *)
(* every alert row.                                                        *)
C3_Ordered ==
  /\ PassAlerts(alerts, now) # << >> => pc \notin {"Fetch", "Generate", "Detect"}
  /\ Attempted <= Len(alertRows)
  /\ Len(PassAlerts(alerts, now)) + CountLines(log, "alert_failed") = Attempted
  /\ (pc \in {"Mark", "MarkLog"} \/ BatchMarked) =>
        /\ idx = Len(alertRows) + 1
        /\ ~FrameAt("Alert") /\ ~FrameAt("AlertLog")

C3_Witness ==
  /\ pc = "MarkLog"
  /\ BatchMarked
  /\ Len(alertRows) >= 2
  /\ CountLines(log, "alert_failed") = 1
  /\ Len(PassAlerts(alerts, now)) = Len(alertRows) - 1

(* C4: a shutdown signal does not stop the process in the middle of a      *)
(* batch: it never stops with alerts of the batch recorded and the batch   *)
(* not marked reviewed; and the connection is released.                    *)
C4_NoMidBatchStop ==
  (pc = "Stopped" /\ sigint) =>
     /\ ~connOpen
     /\ ~(/\ frame \in {"Alert", "Mark"}
          /\ PassAlerts(alerts, now) # << >>
          /\ \E t \in batch : t \in DOMAIN comActive /\ ~comActive[t])

(* C5: in every committed state each transaction is in exactly one of the  *)
(* active store and the archive.                                           *)
C5_ArchiveAtomic ==
  \A t \in ingested : (t \in DOMAIN comActive) # InArchive(comArchive, t)

(* C6: when recording an alert fails and nothing else does, the failure is *)
(* logged, the loop still goes through every other alert row (each is      *)
(* recorded or fails with a logged failure), and once the marking has      *)
(* committed every transaction of the batch is reviewed.                   *)
C6_AlertFailureIsolated ==
  (pc \in {"MarkLog", "ArchInsert"} /\ faultAt = {"Alert"}) =>
     /\ CountLines(log, "alert_failed") >= 1
     /\ idx = Len(alertRows) + 1
     /\ Len(PassAlerts(alerts, now)) + CountLines(log, "alert_failed") = Len(alertRows)
     /\ \A t \in batch : t \in DOMAIN active /\ active[t]

C6_Witness ==
  /\ pc = "MarkLog" /\ faultAt = {"Alert"}
  /\ \E i, j \in 1..Len(alertRows) :
        /\ i < j
        /\ \A k \in 1..Len(alerts) :
              alerts[k].alert_date = now =>
                [transaction_id |-> alerts[k].transaction_id,
                 alert_type |-> alerts[k].alert_type] # alertRows[i]
        /\ \E k \in 1..Len(alerts) :
              /\ alerts[k].alert_date = now
              /\ [transaction_id |-> alerts[k].transaction_id,
                  alert_type |-> alerts[k].alert_type] = alertRows[j]
  /\ \E t \in batch : \E i \in 1..Len(alertRows) : alertRows[i].transaction_id = t
  /\ \A t \in batch : t \in DOMAIN comActive /\ comActive[t]

(* C7: the loop stops only through a shutdown signal. *)
C7_StoppedOnlyBySignal == pc = "Stopped" => sigint

(* C8: the commit of an archive invocation whose statements succeeded,     *)
(* whether or not its log line is ever written, leaves every               *)
(* transaction strictly older than the cutoff (now - retention) in the     *)
(* archive and out of the active store, and every other transaction in the *)
(* active store and out of the archive; the archiver's statements change   *)
(* no reviewed flag of a row they leave, and copy the flag as it is.       *)
C8_ArchiveMovesExactlyOld ==
  [][ /\ (pc = "ArchCommit" /\ pc' = "ArchLog") =>
           /\ cutoff' = now - ARCHIVE_AGE_DAYS * SECONDS_PER_DAY
           /\ ~inTxn'
           /\ \A t \in ingested' :
                IF transaction_date(t) < cutoff'
                  THEN t \notin DOMAIN comActive' /\ InArchive(comArchive', t)
                  ELSE t \in DOMAIN comActive' /\ ~InArchive(comArchive', t)
      /\ (pc \in {"ArchInsert", "ArchDelete", "ArchCommit"}
            /\ pc' \in {"ArchDelete", "ArchCommit", "ArchLog"}) =>
           /\ \A t \in DOMAIN active' : t \in DOMAIN active /\ active'[t] = active[t]
           /\ \A r \in archive' \ archive :
                r.transaction_id \in DOMAIN active
                  /\ r.processed = active[r.transaction_id]
    ]_vars

C8_Witness ==
  /\ pc = "Stopped" /\ frame = "ArchLog" /\ CountLines(log, "archived") = 0
  /\ \E t \in ingested : t \notin DOMAIN comActive /\ InArchive(comArchive, t)
  /\ \E t \in DOMAIN comActive : transaction_date(t) = cutoff
  /\ \E t \in DOMAIN comActive : comActive[t]
  /\ \E r \in comArchive : r.processed

(* C9: a pass that starts when every transaction of the active store is    *)
(* reviewed fetches an empty batch and goes straight to the archiver: it   *)
(* records no alert and changes no reviewed flag.                          *)
C9_Idempotent ==
  [][ /\ (pc = "Fetch" /\ pc' \notin {"Fetch", "Stopped"}
            /\ \A t \in DOMAIN active : active[t]) =>
           /\ pc' = "ArchInsert" /\ batch' = {}
           /\ alerts' = alerts
           /\ \A t \in DOMAIN active \cap DOMAIN active' : active'[t] = active[t]
      /\ (batch = {} /\ pc \in {"ArchInsert", "ArchDelete", "ArchCommit", "ArchLog", "Sleep"}
            /\ pc' # "Fetch") =>
           /\ alerts' = alerts
           /\ \A t \in DOMAIN active \cap DOMAIN active' : active'[t] = active[t]
    ]_vars

C9_Witness ==
  /\ pc = "ArchInsert" /\ log = <<"no_new">>
  /\ now > Now0
  /\ Len(alerts) > 0
  /\ \E t \in DOMAIN active : active[t]

(* C10: a pass persists one alert record per flagged transaction, however *)
(* many rules flagged it.                                                  *)
C10_OneAlertPerTransaction ==
  \A i, j \in 1..Len(alerts) :
     (i # j /\ alerts[i].alert_date = alerts[j].alert_date)
       => alerts[i].transaction_id # alerts[j].transaction_id

(* =============== the detectors and the scorer of the crypto tool ======= *)
(* Their inputs are DataFrames: the columns and the rows in order.  A row  *)
(* of crypto_transactions is [transaction_id, from_address, to_address,    *)
(* value_usd, transaction_date]; addresses are numbered, 1 and 2 being the *)
(* two HIGH_RISK_ADDRESSES of config.py.                                   *)
MaxBatch == 6
MaxFreqRows == 3

THRESHOLD_VALUE_USD == 10000
FREQUENT_TXN_LIMIT == 5
GRAPH_ANALYSIS_LIMIT == 100
FREQUENT_GAP_SECONDS == 600
HIGH_RISK_ADDRESSES == {1, 2}

(* dict.get('transaction_id') of an edge that carries no such key: None *)
NoneId == 0

(* pd.DataFrame() *)
EmptyDataFrame == [columns |-> {}, rows |-> << >>]

(* The columns pd.read_sql gives the batch. *)
BatchColumns ==
  {"transaction_id", "from_address", "to_address", "value_usd", "transaction_fee",
   "transaction_date", "blockchain", "processed"}

BatchFrame(rows) == [columns |-> BatchColumns, rows |-> rows]

(* nx.from_pandas_edgelist(transactions, 'from_address', 'to_address',     *)
(* ['value_usd']): an undirected simple graph.  Rows between the same two  *)
(* addresses are one edge, and an edge carries value_usd only.             *)
Nodes(rows) ==
  {rows[i].from_address : i \in 1..Len(rows)} \cup {rows[i].to_address : i \in 1..Len(rows)}

Edges(rows) == {{rows[i].from_address, rows[i].to_address} : i \in 1..Len(rows)}

(* When the node entered the graph: the edges are added row by row. *)
NodeOrder(rows, n) ==
  Min({2 * i - 1 : i \in {j \in 1..Len(rows) : rows[j].from_address = n}}
        \cup {2 * i : i \in {j \in 1..Len(rows) : rows[j].to_address = n}})

RECURSIVE Component(_, _)
Component(S, E) ==
  LET S2 == S \cup UNION {e \in E : e \cap S # {}}
  IN IF S2 = S THEN S ELSE Component(S2, E)

(* nx.connected_components(G) *)
connected_components(rows) == {Component({n}, Edges(rows)) : n \in Nodes(rows)}

(* subgraph.edges(data=True) of the clusters above the limit, as rows      *)
(* (from_address, to_address, transaction_id): an edge is reported from    *)
(* its endpoint that entered the graph first.                              *)
FlaggedEdges(rows) ==
  {e \in Edges(rows) :
     \E c \in connected_components(rows) :
        e \subseteq c /\ Cardinality(c) > FREQUENT_TXN_LIMIT}

EdgeRow(rows, e) ==
  LET u == CHOOSE n \in e : \A m \in e : NodeOrder(rows, n) <= NodeOrder(rows, m)
      v == IF Cardinality(e) = 1 THEN u ELSE CHOOSE n \in e : n # u
  IN [from_address |-> u, to_address |-> v, transaction_id |-> NoneId]

(* detect_complex_patterns(transactions).  The breaker counts the rows of  *)
(* the frame; a frame without the edge columns makes networkx raise.       *)
detect_complex_patterns(df) ==
  IF Len(df.rows) > GRAPH_ANALYSIS_LIMIT
    THEN [raised |-> FALSE, skipped |-> TRUE, rows |-> {}]
  ELSE IF ~({"from_address", "to_address", "value_usd"} \subseteq df.columns)
    THEN [raised |-> TRUE, skipped |-> FALSE, rows |-> {}]
  ELSE [raised |-> FALSE, skipped |-> FALSE,
        rows |-> {EdgeRow(df.rows, e) : e \in FlaggedEdges(df.rows)}]

(* calculate_risk_score(transaction): the third test calls the graph       *)
(* detector on pd.DataFrame(); when that raises, so does the scorer.       *)
calculate_risk_score(row) ==
  LET s1 == IF row.value_usd > THRESHOLD_VALUE_USD THEN 30 ELSE 0
      s2 == IF row.from_address \in HIGH_RISK_ADDRESSES
                \/ row.to_address \in HIGH_RISK_ADDRESSES
              THEN s1 + 50 ELSE s1
      d == detect_complex_patterns(EmptyDataFrame)
  IN IF d.raised THEN [raised |-> TRUE]
     ELSE LET s3 == IF row.transaction_id \in {r.transaction_id : r \in d.rows}
                      THEN s2 + 20 ELSE s2
          IN [raised |-> FALSE, score |-> IF s3 < 100 THEN s3 ELSE 100]

(* ----------------------- the frames the functions get ------------------ *)
MkRow(i, f, t, v, d) ==
  [transaction_id |-> i, from_address |-> f, to_address |-> t,
   value_usd |-> v, transaction_date |-> d]

(* Up to MaxFreqRows rows from two sources, 0, 5, 10 or 20 minutes in. *)
FreqInputs ==
  UNION {{[i \in 1..n |-> MkRow(i, c[i][1], 5, 5000, c[i][2])] :
            c \in [1..n -> {3, 4} \X {0, 300, 600, 1200}]} : n \in 1..MaxFreqRows}

(* Up to MaxBatch rows: row i joins address i to i + 1, in either          *)
(* direction, or is one more transfer from address 1 to address 2.         *)
EdgeChoice(i, k) == IF k = 1 THEN <<i, i + 1>> ELSE IF k = 2 THEN <<i + 1, i>> ELSE <<1, 2>>

GraphInputs ==
  UNION {{[i \in 1..n |-> MkRow(i, EdgeChoice(i, c[i])[1], EdgeChoice(i, c[i])[2],
                                5000, 1200 * i)] : c \in [1..n -> 1..3]}
         : n \in 1..MaxBatch}

(* One row, above or below the threshold, with or without a listed address. *)
ScoreInputs ==
  {<<MkRow(1, f, t, v, 0)>> : f \in {1, 3}, t \in {2, 4}, v \in {5000, 10000, 20000}}

(* Batches around the limit of the breaker: every row between the same two *)
(* addresses, or every row between two addresses of its own.               *)
SamePair(n) == [i \in 1..n |-> MkRow(i, 3, 4, 5000, 1200 * i)]
DisjointPairs(n) == [i \in 1..n |-> MkRow(i, 2 * i + 1, 2 * i + 2, 5000, 1200 * i)]
SizeInputs ==
  {SamePair(n) : n \in {GRAPH_ANALYSIS_LIMIT, GRAPH_ANALYSIS_LIMIT + 1}}
    \cup {DisjointPairs(n) : n \in {GRAPH_ANALYSIS_LIMIT, GRAPH_ANALYSIS_LIMIT + 1}}

RuleInputs == FreqInputs \cup GraphInputs \cup ScoreInputs \cup SizeInputs

loopVars == <<variant, now, ingested, active, archive, comActive, comArchive, inTxn,
              alerts, pc, batch, alertRows, idx, cutoff, log, faults, faultAt,
              connOpen, sigint, frame>>

(* analyze_transactions has fetched the batch txns and is at its detectors. *)
RuleInit ==
  /\ variant = "crypto"
  /\ now = Now0
  /\ ingested = {}
  /\ active = EmptyTable /\ comActive = EmptyTable
  /\ archive = {} /\ comArchive = {}
  /\ inTxn = FALSE
  /\ alerts = << >>
  /\ pc = "Detect"
  /\ batch = {} /\ alertRows = << >> /\ idx = 1
  /\ cutoff = 0
  /\ log = << >>
  /\ faults = 0 /\ faultAt = {}
  /\ connOpen = TRUE
  /\ sigint = FALSE
  /\ frame = "none"
  /\ txns \in {BatchFrame(rows) : rows \in RuleInputs}
  /\ out = [fn |-> "none"]

ApplyFrequent ==
  /\ out.fn = "none"
  /\ out' = [fn |-> "detect_frequent_transactions",
             result |-> detect_frequent_transactions(
                          {txns.rows[i].transaction_id : i \in 1..Len(txns.rows)})]
  /\ UNCHANGED txns /\ UNCHANGED loopVars

ApplyComplex ==
  /\ out.fn = "none"
  /\ out' = [fn |-> "detect_complex_patterns", result |-> detect_complex_patterns(txns)]
  /\ UNCHANGED txns /\ UNCHANGED loopVars

ApplyScore(i) ==
  /\ out.fn = "none"
  /\ out' = [fn |-> "calculate_risk_score", row |-> i,
             result |-> calculate_risk_score(txns.rows[i])]
  /\ UNCHANGED txns /\ UNCHANGED loopVars

RuleNext ==
  \/ ApplyFrequent
  \/ ApplyComplex
  \/ \E i \in 1..Len(txns.rows) : ApplyScore(i)

RuleSpec == RuleInit /\ [][RuleNext]_vars

(* ------------------------- scoring and detection ----------------------- *)
(* The rows of a batch whose two addresses lie in a cluster with more      *)
(* addresses than FREQUENT_TXN_LIMIT.                                      *)
ClusterMembers(rows) ==
  {i \in 1..Len(rows) :
     \E c \in connected_components(rows) :
        /\ {rows[i].from_address, rows[i].to_address} \subseteq c
        /\ Cardinality(c) > FREQUENT_TXN_LIMIT}

WeightSum(rows, i) ==
  (IF rows[i].value_usd > THRESHOLD_VALUE_USD THEN 30 ELSE 0)
    + (IF rows[i].from_address \in HIGH_RISK_ADDRESSES
          \/ rows[i].to_address \in HIGH_RISK_ADDRESSES THEN 50 ELSE 0)
    + (IF i \in ClusterMembers(rows) THEN 20 ELSE 0)

(* C11: scoring a transaction never fails and gives the sum of the weights *)
(* of the conditions it matches (30 above the threshold, 50 for a listed   *)
(* address, 20 for membership of a flagged cluster), capped at 100.        *)
C11_ScoreIsCappedWeightSum ==
  out.fn = "calculate_risk_score" =>
    /\ ~out.result.raised
    /\ out.result.score = Min({100, WeightSum(txns.rows, out.row)})

(* The rows from the same source that come before row i when the source's *)
(* rows are put in time order.                                             *)
EarlierFromSource(rows, i) ==
  {j \in 1..Len(rows) :
     /\ rows[j].from_address = rows[i].from_address
     /\ \/ rows[j].transaction_date < rows[i].transaction_date
        \/ rows[j].transaction_date = rows[i].transaction_date /\ j < i}

PreviousDate(rows, i) == Max({rows[j].transaction_date : j \in EarlierFromSource(rows, i)})

ShortGapIds(rows) ==
  {rows[i].transaction_id :
     i \in {k \in 1..Len(rows) :
              /\ EarlierFromSource(rows, k) # {}
              /\ rows[k].transaction_date - PreviousDate(rows, k) < FREQUENT_GAP_SECONDS}}

(* C12: the frequency rule flags exactly the transactions that follow the  *)
(* previous transaction of the same source address by less than the        *)
(* frequent-gap duration; the first transaction of a source is not flagged. *)
C12_FrequentFlagsShortGaps ==
  out.fn = "detect_frequent_transactions" =>
    /\ ~out.result.raised
    /\ out.result.flagged = ShortGapIds(txns.rows)

(* C13: when the graph detector runs, the transactions it flags, each by  *)
(* its own transaction id, are exactly the transactions of the batch whose *)
(* two addresses lie in a cluster with more addresses than the limit.      *)
C13_ClusterTransactionsFlaggedById ==
  (out.fn = "detect_complex_patterns" /\ ~out.result.skipped) =>
    /\ ~out.result.raised
    /\ {r.transaction_id : r \in out.result.rows}
         = {txns.rows[i].transaction_id : i \in ClusterMembers(txns.rows)}

(* C14: the graph detector is skipped, returning nothing, exactly when the *)
(* graph of the batch has more nodes (addresses) than GRAPH_ANALYSIS_LIMIT; *)
(* within the limit it runs.                                               *)
C14_BreakerKeyedOnNodes ==
  out.fn = "detect_complex_patterns" =>
    /\ ~out.result.raised
    /\ out.result.skipped <=> Cardinality(Nodes(txns.rows)) > GRAPH_ANALYSIS_LIMIT
    /\ out.result.skipped => out.result.rows = {}

(* C15: with no shutdown signal and no storage failure the loop does not   *)
(* come to an end while a transaction of the active store is unreviewed:   *)
(* every such transaction is still to be reviewed or archived by a pass.   *)
C15_NoTransactionLeftBehind ==
  (pc = "Stopped" /\ ~sigint /\ faults = 0) =>
    \A t \in DOMAIN comActive : comActive[t]

====
